---- MODULE Spec2Model ----
(***************************************************************************)
(* A model of the python-libzim bridge layer:                              *)
(*   - ObjWrapper / ZimArticleWrapper: the handles that own one reference  *)
(*     to a Python object (src/libzim/libwrapper.cpp, src/libzim/lib.cxx); *)
(*   - call_method_on_obj / callCythonReturn*: the typed call dispatcher;  *)
(*   - WriterItemWrapper, ContentProviderWrapper: the writer-side adapters;*)
(*   - comp_from_int: the compression code table.                          *)
(***************************************************************************)
EXTENDS Integers, Sequences, FiniteSets, TLC

(***************************************************************************)
(* Bounds of the model.                                                    *)
(***************************************************************************)
MaxHandles == 2
MaxIncs == 2
MaxBase == 1
MaxChunks == 2
MaxChunkLen == 2
MaxCode == 3
MaxEntries == 2
MaxSuggestions == 3
MaxArticles == 3
MaxUrlLen == 3

(***************************************************************************)
(* The Python objects, the null pointer and the handle slots.              *)
(***************************************************************************)
Objs == {"o1", "o2"}
NULL == "nullptr"
Ptrs == Objs \cup {NULL}
Handles == 1..MaxHandles

\* import_libzim() / import_libzim__wrapper(): 0 on success, -1 on failure.
ImportResults == {0, -1}

\* The classes built on a PyObject* member m_obj.
AdapterKinds == {"WriterItemWrapper", "ContentProviderWrapper", "IndexDataWrapper"}
ObjWrapperKinds == {"ObjWrapper"} \cup AdapterKinds

VARIABLES
    refcnt,     \* ob_refcnt of each Python object
    base,       \* the references the runtime holds itself (never changes)
    handles,    \* the C++ objects holding a PyObject *m_obj
    incs,       \* how often the bridge incremented each object's count
    decs,       \* how often the bridge decremented each object's count
    last,       \* the last handle operation and the counts before it
    call,       \* the last call an adapter made through the typed call dispatcher
    feedSrc,    \* the chunks the provider object yields, before the empty one
    feedPos,    \* how often the provider object's feed method was invoked
    feedCalls,  \* how often the engine called the adapter's feed()
    sizeSeen,   \* what getSize() told the engine
    received,   \* the chunks the engine received, in order
    pc,         \* where the engine is in writing the item's content
    compIn,     \* the integer code handed to comp_from_int
    compOut,    \* what comp_from_int returned for it ("pending" before the call)
    compSeen,   \* every result seen so far, per code
    gil,        \* the thread holding the runtime's global lock, or "free"
    tpc,        \* where each thread is in a constructor or destructor
    treg,       \* each thread's handle, object and the count it has read
    arch,       \* the opened archive: its main entry and its redirects
    rw,         \* the value wrapper the runtime holds
    rx,         \* the engine value that was wrapped, as its owner sees it now
    rsrc,       \* the engine value that was wrapped, as it was before wrapping
    rlast,      \* the last operation on a value wrapper and its outcome
    sset,       \* the suggestions of the result set, in the engine's order
    sit,        \* the iterator wrapper the runtime advances
    send,       \* the iterator wrapper from end()
    svisited,   \* the suggestions read so far, in the order read
    sadv,       \* how many times the runtime has advanced sit
    spc,        \* where the runtime is in its loop over the result set
    slast,      \* the last operator!= or operator++ and its result
    kvariant,   \* which creator wrapper class the owner uses
    kw,         \* the creator wrapper object: not made, alive or deleted
    kc,         \* the engine creator behind _creator
    kdel,       \* how many times delete _creator has run
    kuse,       \* a deleted wrapper or creator was used or deleted again
    kpc,        \* where the owner is in create, add, finalize, destroy
    ucall       \* the last getUrl / getRedirectUrl call and its result

hvars == <<refcnt, base, handles, incs, decs, last>>
dvars == <<call>>
fvars == <<feedSrc, feedPos, feedCalls, sizeSeen, received, pc>>
cvars == <<compIn, compOut, compSeen>>
tvars == <<gil, tpc, treg>>
rvars == <<arch, rw, rx, rsrc, rlast>>
svars == <<sset, sit, send, svisited, sadv, spc, slast>>
kvars == <<kvariant, kw, kc, kdel, kuse, kpc>>
uvars == <<ucall>>
ovars == <<tvars, rvars, svars, kvars, uvars>>
tothers == <<rvars, svars, kvars, uvars>>
rothers == <<tvars, svars, kvars, uvars>>
sothers == <<tvars, rvars, kvars, uvars>>
kothers == <<tvars, rvars, svars, uvars>>
uothers == <<tvars, rvars, svars, kvars>>
vars == <<hvars, dvars, fvars, cvars, ovars>>

NoHandle == [live |-> FALSE, kind |-> "ObjWrapper", m_obj |-> NULL]

NoOp == [op |-> "none", h |-> 0, src |-> 0, obj |-> NULL, err |-> "none",
         rcBefore |-> [o \in Objs |-> 0]]

\* Py_XINCREF(p) and Py_XDECREF(p): nothing for a null pointer.
Py_XINCREF(rc, p) == IF p = NULL THEN rc ELSE [rc EXCEPT ![p] = @ + 1]
Py_XDECREF(rc, p) == IF p = NULL THEN rc ELSE [rc EXCEPT ![p] = @ - 1]

\* The bookkeeping of the increments and decrements a step performed.
Count(rcNew) ==
    /\ incs' = [o \in Objs |-> IF rcNew[o] > refcnt[o]
                                THEN incs[o] + (rcNew[o] - refcnt[o]) ELSE incs[o]]
    /\ decs' = [o \in Objs |-> IF rcNew[o] < refcnt[o]
                                THEN decs[o] + (refcnt[o] - rcNew[o]) ELSE decs[o]]

HandleInit ==
    /\ base \in [Objs -> 1..MaxBase]
    /\ refcnt = base
    /\ handles = [h \in Handles |-> NoHandle]
    /\ incs = [o \in Objs |-> 0]
    /\ decs = [o \in Objs |-> 0]
    /\ last = NoOp

(***************************************************************************)
(* ObjWrapper::ObjWrapper(PyObject *obj): m_obj(obj); throws when          *)
(* import_libzim() fails, else Py_XINCREF(m_obj).  An exception thrown by  *)
(* a constructor leaves no object behind and no destructor runs.           *)
(***************************************************************************)
ObjWrapper_ctor_IncrefFirst(h, kind, obj, rc) ==
    LET rcNew == Py_XINCREF(refcnt, obj) IN
    /\ refcnt' = rcNew
    /\ Count(rcNew)
    /\ IF rc # 0
       THEN /\ handles' = handles
            /\ last' = [NoOp EXCEPT !.op = "ctor", !.h = h, !.obj = obj,
                                    !.err = "RuntimeNotReady", !.rcBefore = refcnt]
       ELSE /\ handles' = [handles EXCEPT ![h] = [live |-> TRUE, kind |-> kind, m_obj |-> obj]]
            /\ last' = [NoOp EXCEPT !.op = "ctor", !.h = h, !.obj = obj, !.rcBefore = refcnt]

ObjWrapper_ctor(h, kind, obj, rc) ==
    IF rc # 0
    THEN /\ UNCHANGED <<refcnt, handles, incs, decs>>
         /\ last' = [NoOp EXCEPT !.op = "ctor", !.h = h, !.obj = obj,
                                 !.err = "RuntimeNotReady", !.rcBefore = refcnt]
    ELSE LET rcNew == Py_XINCREF(refcnt, obj) IN
         /\ refcnt' = rcNew
         /\ Count(rcNew)
         /\ handles' = [handles EXCEPT ![h] = [live |-> TRUE, kind |-> kind, m_obj |-> obj]]
         /\ last' = [NoOp EXCEPT !.op = "ctor", !.h = h, !.obj = obj, !.rcBefore = refcnt]

\* ZimArticleWrapper::ZimArticleWrapper(PyObject *obj): the same, with
\* import_libzim__wrapper() and the increment in the else branch.
ZimArticleWrapper_ctor(h, obj, rc) ==
    IF rc # 0
    THEN /\ UNCHANGED <<refcnt, handles, incs, decs>>
         /\ last' = [NoOp EXCEPT !.op = "ctor", !.h = h, !.obj = obj,
                                 !.err = "RuntimeNotReady", !.rcBefore = refcnt]
    ELSE LET rcNew == Py_XINCREF(refcnt, obj) IN
         /\ refcnt' = rcNew
         /\ Count(rcNew)
         /\ handles' = [handles EXCEPT ![h] =
                           [live |-> TRUE, kind |-> "ZimArticleWrapper", m_obj |-> obj]]
         /\ last' = [NoOp EXCEPT !.op = "ctor", !.h = h, !.obj = obj, !.rcBefore = refcnt]

\* ObjWrapper::ObjWrapper(ObjWrapper &&other): m_obj(other.m_obj); other.m_obj = nullptr.
ObjWrapper_move_ctor_KeepsSource(h, src) ==
    /\ handles' = [handles EXCEPT ![h] = [live |-> TRUE, kind |-> "ObjWrapper",
                                          m_obj |-> handles[src].m_obj]]
    /\ UNCHANGED <<refcnt, incs, decs>>
    /\ last' = [NoOp EXCEPT !.op = "move", !.h = h, !.src = src,
                            !.obj = handles[src].m_obj, !.rcBefore = refcnt]

ObjWrapper_move_ctor(h, src) ==
    /\ handles' = [handles EXCEPT ![h] = [live |-> TRUE, kind |-> "ObjWrapper",
                                          m_obj |-> handles[src].m_obj],
                                  ![src].m_obj = NULL]
    /\ UNCHANGED <<refcnt, incs, decs>>
    /\ last' = [NoOp EXCEPT !.op = "move", !.h = h, !.src = src,
                            !.obj = handles[src].m_obj, !.rcBefore = refcnt]

\* ObjWrapper::operator=(ObjWrapper &&other): m_obj = other.m_obj;
\* other.m_obj = nullptr; in this order (other may be *this).
ObjWrapper_move_assign(dst, src) ==
    LET step1 == [handles EXCEPT ![dst].m_obj = handles[src].m_obj]
        step2 == [step1 EXCEPT ![src].m_obj = NULL] IN
    /\ handles' = step2
    /\ UNCHANGED <<refcnt, incs, decs>>
    /\ last' = [NoOp EXCEPT !.op = "assign", !.h = dst, !.src = src,
                            !.obj = handles[src].m_obj, !.rcBefore = refcnt]

\* ObjWrapper::~ObjWrapper(): if (m_obj != nullptr) Py_XDECREF(m_obj).
ObjWrapper_dtor_NoDecref(h) ==
    /\ UNCHANGED <<refcnt, incs, decs>>
    /\ handles' = [handles EXCEPT ![h] = NoHandle]
    /\ last' = [NoOp EXCEPT !.op = "dtor", !.h = h, !.obj = handles[h].m_obj,
                            !.rcBefore = refcnt]

ObjWrapper_dtor(h) ==
    LET rcNew == IF handles[h].m_obj # NULL
                 THEN Py_XDECREF(refcnt, handles[h].m_obj) ELSE refcnt IN
    /\ refcnt' = rcNew
    /\ Count(rcNew)
    /\ handles' = [handles EXCEPT ![h] = NoHandle]
    /\ last' = [NoOp EXCEPT !.op = "dtor", !.h = h, !.obj = handles[h].m_obj,
                            !.rcBefore = refcnt]

\* ZimArticleWrapper::~ZimArticleWrapper(): Py_XDECREF(this->m_obj).
ZimArticleWrapper_dtor(h) ==
    LET rcNew == Py_XDECREF(refcnt, handles[h].m_obj) IN
    /\ refcnt' = rcNew
    /\ Count(rcNew)
    /\ handles' = [handles EXCEPT ![h] = NoHandle]
    /\ last' = [NoOp EXCEPT !.op = "dtor", !.h = h, !.obj = handles[h].m_obj,
                            !.rcBefore = refcnt]

\* The guard that keeps the counters of the model finite.
MayAcquire(obj) == IF obj = NULL THEN TRUE ELSE incs[obj] < MaxIncs

Construct(kinds) ==
    \E h \in Handles, kind \in kinds, obj \in Ptrs, rc \in ImportResults :
        /\ ~handles[h].live
        /\ MayAcquire(obj)
        /\ ObjWrapper_ctor(h, kind, obj, rc)
        /\ UNCHANGED <<base, dvars, fvars, cvars, ovars>>

ConstructArticle ==
    \E h \in Handles, obj \in Ptrs, rc \in ImportResults :
        /\ ~handles[h].live
        /\ MayAcquire(obj)
        /\ ZimArticleWrapper_ctor(h, obj, rc)
        /\ UNCHANGED <<base, dvars, fvars, cvars, ovars>>

MoveConstruct ==
    \E h \in Handles, src \in Handles :
        /\ ~handles[h].live
        /\ handles[src].live
        /\ handles[src].kind = "ObjWrapper"
        /\ ObjWrapper_move_ctor(h, src)
        /\ UNCHANGED <<base, dvars, fvars, cvars, ovars>>

MoveAssign ==
    \E dst \in Handles, src \in Handles :
        /\ handles[dst].live /\ handles[dst].kind = "ObjWrapper"
        /\ handles[src].live /\ handles[src].kind = "ObjWrapper"
        /\ ObjWrapper_move_assign(dst, src)
        /\ UNCHANGED <<base, dvars, fvars, cvars, ovars>>

Destroy ==
    \E h \in Handles :
        /\ handles[h].live
        /\ handles[h].kind \in ObjWrapperKinds
        /\ ObjWrapper_dtor(h)
        /\ UNCHANGED <<base, dvars, fvars, cvars, ovars>>

DestroyArticle ==
    \E h \in Handles :
        /\ handles[h].live
        /\ handles[h].kind = "ZimArticleWrapper"
        /\ ZimArticleWrapper_dtor(h)
        /\ UNCHANGED <<base, dvars, fvars, cvars, ovars>>


(***************************************************************************)
(* The typed call dispatcher.                                              *)
(*                                                                         *)
(* A Python value is a type tag and a payload; the outcome of invoking a   *)
(* method on a Python object is either a raised error with the runtime's   *)
(* error text or a returned value.  `py` below is what the object answers  *)
(* for each method name at the time of the call.                           *)
(***************************************************************************)
OutTypes == {"bool", "string", "uint64", "uint32", "blob", "contentprovider",
             "indexdata", "hints", "geoposition"}

PyValues == [type : OutTypes, val : {<<1>>}] \cup [type : {"string"}, val : {<<1, 2>>}]

\* The error texts of the runtime: it reports a raised error by a text.
Messages == {"boom", "oops"}
ShapeError == "TypeError"

NoValue == [type |-> "none", val |-> <<>>]

PyOutcomes ==
    [raised : {TRUE}, msg : Messages, ret : {NoValue}]
        \cup [raised : {FALSE}, msg : {""}, ret : PyValues]

MethodNames == {"get_path", "get_title", "get_mimetype", "get_contentprovider",
                "get_indexdata", "get_hints", "get_size", "feed", "has_indexdata",
                "get_content", "get_keywords", "get_wordcount", "get_geoposition",
                "is_redirect", "get_mime_type", "get_filename", "should_compress",
                "should_index", "_get_data"}

\* What a *_cy_call_fct returns when it reports an error: an empty value.
DefaultOut(outType) == [type |-> outType, val |-> <<>>]

\* bool_cy_call_fct, string_cy_call_fct, ... (obj, methodName, &error): invoke
\* the method and marshal its result into the C++ type; a raised error or a
\* value of another shape is reported by its text in `error`.
cy_call_fct(outType, obj, methodName, py) ==
    LET r == py[methodName] IN
    IF r.raised THEN [out |-> DefaultOut(outType), error |-> r.msg]
    ELSE IF r.ret.type # outType THEN [out |-> DefaultOut(outType), error |-> ShapeError]
    ELSE [out |-> r.ret, error |-> ""]

\* template <> Output _call_method_on_obj(obj, methodName, error): the
\* specialisation of each Output calls the *_cy_call_fct of that type.
_call_method_on_obj(outType, obj, methodName, py) ==
    cy_call_fct(outType, obj, methodName, py)

Result(err, msg, out, invoked) ==
    [err |-> err, msg |-> msg, out |-> out, invoked |-> invoked]

\* call_method_on_obj<Output>(obj, methodName)
call_method_on_obj_NoNullCheck(outType, obj, methodName, py) ==
    LET c == _call_method_on_obj(outType, obj, methodName, py) IN
    IF c.error # ""
    THEN Result("DynamicCallError", c.error, NoValue, <<methodName>>)
    ELSE Result("none", "", c.out, <<methodName>>)

call_method_on_obj_SwallowsError(outType, obj, methodName, py) ==
    IF obj = NULL
    THEN Result("UnboundObject", "Python object not set", NoValue, <<>>)
    ELSE LET c == _call_method_on_obj(outType, obj, methodName, py) IN
         Result("none", "", c.out, <<methodName>>)

call_method_on_obj(outType, obj, methodName, py) ==
    IF obj = NULL
    THEN Result("UnboundObject", "Python object not set", NoValue, <<>>)
    ELSE LET c == _call_method_on_obj(outType, obj, methodName, py) IN
         IF c.error # ""
         THEN Result("DynamicCallError", c.error, NoValue, <<methodName>>)
         ELSE Result("none", "", c.out, <<methodName>>)

\* ZimArticleWrapper::callCythonReturnString / Blob / Bool (methodName)
callCythonReturn(outType, obj, methodName, py) ==
    IF obj = NULL
    THEN Result("UnboundObject", "Python object not set", NoValue, <<>>)
    ELSE LET c == cy_call_fct(outType, obj, methodName, py) IN
         IF c.error # ""
         THEN Result("DynamicCallError", c.error, NoValue, <<methodName>>)
         ELSE Result("none", "", c.out, <<methodName>>)

(***************************************************************************)
(* The writer-side adapters: each virtual method and the dispatch it makes.*)
(***************************************************************************)
WriterItemOps == {"getPath", "getTitle", "getMimeType", "getContentProvider", "getHints"}

WriterItemWrapper_method_SwapsNames(op, obj, py) ==
    CASE op = "getPath" -> call_method_on_obj("string", obj, "get_title", py)
      [] op = "getTitle" -> call_method_on_obj("string", obj, "get_path", py)
      [] op = "getMimeType" -> call_method_on_obj("string", obj, "get_mimetype", py)
      [] op = "getContentProvider" ->
            call_method_on_obj("contentprovider", obj, "get_contentprovider", py)
      [] op = "getHints" -> call_method_on_obj("hints", obj, "get_hints", py)

WriterItemWrapper_method(op, obj, py) ==
    CASE op = "getPath" -> call_method_on_obj("string", obj, "get_path", py)
      [] op = "getTitle" -> call_method_on_obj("string", obj, "get_title", py)
      [] op = "getMimeType" -> call_method_on_obj("string", obj, "get_mimetype", py)
      [] op = "getContentProvider" ->
            call_method_on_obj("contentprovider", obj, "get_contentprovider", py)
      [] op = "getHints" -> call_method_on_obj("hints", obj, "get_hints", py)

IndexDataOps == {"hasIndexData", "getTitle", "getContent", "getKeywords",
                 "getWordCount", "getGeoPosition"}

IndexDataWrapper_method(op, obj, py) ==
    CASE op = "hasIndexData" -> call_method_on_obj("bool", obj, "has_indexdata", py)
      [] op = "getTitle" -> call_method_on_obj("string", obj, "get_title", py)
      [] op = "getContent" -> call_method_on_obj("string", obj, "get_content", py)
      [] op = "getKeywords" -> call_method_on_obj("string", obj, "get_keywords", py)
      [] op = "getWordCount" -> call_method_on_obj("uint32", obj, "get_wordcount", py)
      [] op = "getGeoPosition" ->
            call_method_on_obj("geoposition", obj, "get_geoposition", py)

ContentProviderWrapper_getSize(obj, py) == call_method_on_obj("uint64", obj, "get_size", py)

ContentProviderWrapper_feed_AsksSize(obj, py) == call_method_on_obj("blob", obj, "get_size", py)

ContentProviderWrapper_feed(obj, py) == call_method_on_obj("blob", obj, "feed", py)

ArticleOps == {"getTitle", "isRedirect", "getMimeType", "getFilename",
               "shouldCompress", "shouldIndex", "getData"}

ZimArticleWrapper_method(op, obj, py) ==
    CASE op = "getTitle" -> callCythonReturn("string", obj, "get_title", py)
      [] op = "isRedirect" -> callCythonReturn("bool", obj, "is_redirect", py)
      [] op = "getMimeType" -> callCythonReturn("string", obj, "get_mime_type", py)
      [] op = "getFilename" -> callCythonReturn("string", obj, "get_filename", py)
      [] op = "shouldCompress" -> callCythonReturn("bool", obj, "should_compress", py)
      [] op = "shouldIndex" -> callCythonReturn("bool", obj, "should_index", py)
      [] op = "getData" -> callCythonReturn("blob", obj, "_get_data", py)

\* The state of the get_indexdata attribute of a Python object.
AttrStates == {"absent", "none", "method"}

\* obj_has_attribute(obj, name) and method_is_none(obj, name)
obj_has_attribute(attr) == attr # "absent"
method_is_none(attr) == attr = "none"

\* zim::writer::Item::getIndexData(): the engine's own default.
EngineDefaultIndexData == [type |-> "indexdata", val |-> <<0>>]

\* WriterItemWrapper::getIndexData()
WriterItemWrapper_getIndexData_NoNoneCheck(obj, attr, py) ==
    IF ~obj_has_attribute(attr)
    THEN Result("none", "", EngineDefaultIndexData, <<>>)
    ELSE call_method_on_obj("indexdata", obj, "get_indexdata", py)

WriterItemWrapper_getIndexData(obj, attr, py) ==
    IF ~obj_has_attribute(attr)
    THEN Result("none", "", EngineDefaultIndexData, <<>>)
    ELSE IF method_is_none(attr)
    THEN Result("none", "", EngineDefaultIndexData, <<>>)
    ELSE call_method_on_obj("indexdata", obj, "get_indexdata", py)

NoCall == [op |-> "none", kind |-> "none", h |-> 0, obj |-> NULL, attr |-> "absent",
           err |-> "none", msg |-> "", out |-> NoValue, invoked |-> <<>>,
           pyraised |-> FALSE, pymsg |-> "", pyret |-> NoValue]

\* The record of a call: its result and what the Python object answered to
\* the invocation the call made (if it made one).
Called(op, h, attr, r, py) ==
    LET made == r.invoked # <<>>
        ans == IF made THEN py[r.invoked[1]] ELSE [raised |-> FALSE, msg |-> "", ret |-> NoValue]
    IN [op |-> op, kind |-> handles[h].kind, h |-> h, obj |-> handles[h].m_obj,
        attr |-> attr, err |-> r.err, msg |-> r.msg, out |-> r.out,
        invoked |-> r.invoked, pyraised |-> ans.raised, pymsg |-> ans.msg,
        pyret |-> ans.ret]

\* An object that answers `a` whatever the method.
Answers(a) == [m \in MethodNames |-> a]

WriterItemCall_DropsHandle ==
    \E h \in Handles, op \in WriterItemOps, a \in PyOutcomes :
        /\ handles[h].live /\ handles[h].kind = "WriterItemWrapper"
        /\ call' = Called(op, h, "absent",
                          WriterItemWrapper_method(op, handles[h].m_obj, Answers(a)), Answers(a))
        /\ handles' = [handles EXCEPT ![h].m_obj = NULL]
        /\ UNCHANGED <<refcnt, base, incs, decs, last, fvars, cvars, ovars>>

WriterItemCall ==
    \E h \in Handles, op \in WriterItemOps, a \in PyOutcomes :
        /\ handles[h].live /\ handles[h].kind = "WriterItemWrapper"
        /\ call' = Called(op, h, "absent",
                          WriterItemWrapper_method(op, handles[h].m_obj, Answers(a)), Answers(a))
        /\ UNCHANGED <<hvars, fvars, cvars, ovars>>

\* With a null m_obj the attribute lookups dereference a null pointer: any
\* answer may come back.
GetIndexData ==
    \E h \in Handles, attr \in AttrStates, a \in PyOutcomes :
        /\ handles[h].live /\ handles[h].kind = "WriterItemWrapper"
        /\ call' = Called("getIndexData", h, attr,
                          WriterItemWrapper_getIndexData(handles[h].m_obj, attr, Answers(a)),
                          Answers(a))
        /\ UNCHANGED <<hvars, fvars, cvars, ovars>>

IndexDataCall ==
    \E h \in Handles, op \in IndexDataOps, a \in PyOutcomes :
        /\ handles[h].live /\ handles[h].kind = "IndexDataWrapper"
        /\ call' = Called(op, h, "absent",
                          IndexDataWrapper_method(op, handles[h].m_obj, Answers(a)), Answers(a))
        /\ UNCHANGED <<hvars, fvars, cvars, ovars>>

ContentProviderGetSize ==
    \E h \in Handles, a \in PyOutcomes :
        /\ handles[h].live /\ handles[h].kind = "ContentProviderWrapper"
        /\ call' = Called("getSize", h, "absent",
                          ContentProviderWrapper_getSize(handles[h].m_obj, Answers(a)), Answers(a))
        /\ UNCHANGED <<hvars, fvars, cvars, ovars>>

ContentProviderFeed ==
    \E h \in Handles, a \in PyOutcomes :
        /\ handles[h].live /\ handles[h].kind = "ContentProviderWrapper"
        /\ call' = Called("feed", h, "absent",
                          ContentProviderWrapper_feed(handles[h].m_obj, Answers(a)), Answers(a))
        /\ UNCHANGED <<hvars, fvars, cvars, ovars>>

ArticleCall ==
    \E h \in Handles, op \in ArticleOps, a \in PyOutcomes :
        /\ handles[h].live /\ handles[h].kind = "ZimArticleWrapper"
        /\ call' = Called(op, h, "absent",
                          ZimArticleWrapper_method(op, handles[h].m_obj, Answers(a)), Answers(a))
        /\ UNCHANGED <<hvars, fvars, cvars, ovars>>

\* The adapter the engine holds when it starts calling it: one adapter,
\* constructed (successfully) around an object or around a null pointer.
LiveOn(o) == {h \in Handles : handles[h].live /\ handles[h].m_obj = o}

DispatchInit ==
    /\ base \in [Objs -> 1..MaxBase]
    /\ \E h0 \in Handles, k \in AdapterKinds \cup {"ZimArticleWrapper"}, p \in Ptrs :
          handles = [h \in Handles |->
                        IF h = h0 THEN [live |-> TRUE, kind |-> k, m_obj |-> p]
                        ELSE NoHandle]
    /\ refcnt = [o \in Objs |-> base[o] + Cardinality(LiveOn(o))]
    /\ incs = [o \in Objs |-> Cardinality(LiveOn(o))]
    /\ decs = [o \in Objs |-> 0]
    /\ last = NoOp


(***************************************************************************)
(* The content provider protocol.  The provider object yields the chunks   *)
(* of feedSrc one per invocation of its feed method and the empty chunk    *)
(* from then on; its get_size is the total length of the chunks.           *)
(***************************************************************************)
Bytes == {"a", "b"}
ProviderObj == "o1"

RECURSIVE SeqsUpTo(_, _)
SeqsUpTo(S, n) ==
    IF n = 0 THEN {<<>>}
    ELSE LET shorter == SeqsUpTo(S, n - 1) IN
         shorter \cup {Append(q, x) : q \in shorter, x \in S}

Chunks == SeqsUpTo(Bytes, MaxChunkLen) \ {<<>>}

RECURSIVE TotalLen(_)
TotalLen(cs) == IF cs = <<>> THEN 0 ELSE Len(Head(cs)) + TotalLen(Tail(cs))

\* What the provider object answers to each method in its current state.
ProviderAnswers ==
    [m \in MethodNames |->
        IF m = "feed"
        THEN [raised |-> FALSE, msg |-> "",
              ret |-> [type |-> "blob",
                       val |-> IF feedPos < Len(feedSrc) THEN feedSrc[feedPos + 1] ELSE <<>>]]
        ELSE IF m = "get_size"
        THEN [raised |-> FALSE, msg |-> "",
              ret |-> [type |-> "uint64", val |-> <<TotalLen(feedSrc)>>]]
        ELSE [raised |-> TRUE, msg |-> "boom", ret |-> NoValue]]

\* How many of the invocations of a call were of the feed method.
FeedInvocations(r) == Cardinality({i \in DOMAIN r.invoked : r.invoked[i] = "feed"})

IsProvider(h) ==
    /\ handles[h].live
    /\ handles[h].kind = "ContentProviderWrapper"
    /\ handles[h].m_obj = ProviderObj

FeedInit ==
    /\ feedSrc \in SeqsUpTo(Chunks, MaxChunks)
    /\ feedPos = 0
    /\ feedCalls = 0
    /\ sizeSeen = 0
    /\ received = <<>>
    /\ pc = "start"

\* No item is being written.
FeedIdle ==
    /\ feedSrc = <<>>
    /\ feedPos = 0
    /\ feedCalls = 0
    /\ sizeSeen = 0
    /\ received = <<>>
    /\ pc = "idle"

\* The engine asks the size once, before it feeds.
EngineGetSize ==
    \E h \in Handles :
        /\ IsProvider(h)
        /\ pc = "start"
        /\ LET r == ContentProviderWrapper_getSize(handles[h].m_obj, ProviderAnswers) IN
           /\ call' = Called("getSize", h, "absent", r, ProviderAnswers)
           /\ IF r.err # "none"
              THEN pc' = "failed" /\ sizeSeen' = sizeSeen
              ELSE pc' = "feeding" /\ sizeSeen' = r.out.val[1]
        /\ UNCHANGED <<hvars, cvars, ovars, feedSrc, feedPos, feedCalls, received>>

\* The engine calls feed() until a zero-length blob comes back.
EngineFeed ==
    \E h \in Handles :
        /\ IsProvider(h)
        /\ pc = "feeding"
        /\ LET r == ContentProviderWrapper_feed(handles[h].m_obj, ProviderAnswers) IN
           /\ call' = Called("feed", h, "absent", r, ProviderAnswers)
           /\ feedPos' = feedPos + FeedInvocations(r)
           /\ feedCalls' = feedCalls + 1
           /\ IF r.err # "none"
              THEN pc' = "failed" /\ received' = received
              ELSE IF r.out.val = <<>>
              THEN pc' = "done" /\ received' = received
              ELSE pc' = "feeding" /\ received' = Append(received, r.out.val)
        /\ UNCHANGED <<hvars, cvars, ovars, feedSrc, sizeSeen>>

(***************************************************************************)
(* comp_from_int(int compValue)                                            *)
(***************************************************************************)
CompInputs == (0 - MaxCode)..MaxCode
CompressionKinds == {"None", "Lzma", "Zstd"}

comp_from_int_OldTable(compValue) ==
    CASE compValue = 0 -> "None"
      [] compValue = 1 -> "Lzma"
      [] compValue = 2 -> "Zstd"
      [] OTHER -> "None"

comp_from_int_DefaultRaises(compValue) ==
    CASE compValue = 0 -> "None"
      [] compValue = 1 -> "Zstd"
      [] OTHER -> "error"

comp_from_int(compValue) ==
    CASE compValue = 0 -> "None"
      [] compValue = 1 -> "Zstd"
      [] OTHER -> "None"

CompInit ==
    /\ compIn \in CompInputs
    /\ compOut = "pending"
    /\ compSeen = [v \in CompInputs |-> {}]

\* comp_from_int is not in use.
CompIdle ==
    /\ compIn = 0
    /\ compOut = "idle"
    /\ compSeen = [v \in CompInputs |-> {}]

CompCall ==
    /\ compOut = "pending"
    /\ compOut' = comp_from_int(compIn)
    /\ compSeen' = [compSeen EXCEPT ![compIn] = @ \cup {comp_from_int(compIn)}]
    /\ UNCHANGED <<compIn, hvars, dvars, fvars, ovars>>

CompNext ==
    /\ compOut \in CompressionKinds
    /\ \E v \in CompInputs : compIn' = v
    /\ compOut' = "pending"
    /\ UNCHANGED <<compSeen, hvars, dvars, fvars, ovars>>

(***************************************************************************)
(* Threads.  The engine calls into the bridge from threads of its own; the *)
(* runtime's global lock (the GIL) is taken with PyGILState_Ensure and     *)
(* given back with PyGILState_Release.  Py_XINCREF and Py_XDECREF are a    *)
(* read of ob_refcnt followed by a write, and nothing else orders them.    *)
(***************************************************************************)
Threads == {"t1", "t2"}
FREE == "free"

\* The objects the threads wrap: one shared object, or none.
ThreadPtrs == {"o1", NULL}

NoReg == [h |-> 0, kind |-> "ObjWrapper", obj |-> NULL, tmp |-> 0, held |-> FALSE]

ThreadsIdle ==
    /\ gil = FREE
    /\ tpc = [t \in Threads |-> "idle"]
    /\ treg = [t \in Threads |-> NoReg]

\* No other thread is constructing or destroying the handle h.
Untouched(h) == \A u \in Threads : tpc[u] # "idle" => treg[u].h # h

\* A thread of the runtime holds the lock while it runs, and gives it up
\* around the calls it lets run without it.
CallerTakesGIL ==
    \E t \in Threads :
        /\ tpc[t] = "idle" /\ gil = FREE
        /\ gil' = t
        /\ UNCHANGED <<tpc, treg, hvars, dvars, fvars, cvars, tothers>>

CallerDropsGIL ==
    \E t \in Threads :
        /\ tpc[t] = "idle" /\ gil = t
        /\ gil' = FREE
        /\ UNCHANGED <<tpc, treg, hvars, dvars, fvars, cvars, tothers>>

\* ObjWrapper::ObjWrapper / ZimArticleWrapper::ZimArticleWrapper, up to the
\* increment: m_obj(obj), then the import test.  No lock is taken.
T_CtorBegin ==
    \E t \in Threads, h \in Handles, kind \in {"ObjWrapper", "ZimArticleWrapper"},
       obj \in ThreadPtrs, rc \in ImportResults :
        /\ tpc[t] = "idle"
        /\ ~handles[h].live /\ Untouched(h)
        /\ MayAcquire(obj)
        /\ IF rc # 0
           THEN UNCHANGED <<tpc, treg>>
           ELSE /\ tpc' = [tpc EXCEPT ![t] = "ctor_read"]
                /\ treg' = [treg EXCEPT ![t] = [NoReg EXCEPT !.h = h, !.kind = kind, !.obj = obj]]
        /\ UNCHANGED <<gil, refcnt, base, handles, incs, decs, last, dvars, fvars, cvars, tothers>>

\* Py_XINCREF(m_obj): the read of the count (nothing for a null pointer).
T_CtorRead ==
    \E t \in Threads :
        /\ tpc[t] = "ctor_read"
        /\ tpc' = [tpc EXCEPT ![t] = "ctor_write"]
        /\ treg' = [treg EXCEPT ![t].tmp = IF treg[t].obj = NULL THEN 0 ELSE refcnt[treg[t].obj]]
        /\ UNCHANGED <<gil, hvars, dvars, fvars, cvars, tothers>>

\* Py_XINCREF(m_obj): the write of the count; the constructor returns.
T_CtorWrite ==
    \E t \in Threads :
        /\ tpc[t] = "ctor_write"
        /\ LET r == treg[t]
               rcNew == IF r.obj = NULL THEN refcnt ELSE [refcnt EXCEPT ![r.obj] = r.tmp + 1] IN
           /\ refcnt' = rcNew
           /\ Count(rcNew)
           /\ handles' = [handles EXCEPT ![r.h] = [live |-> TRUE, kind |-> r.kind, m_obj |-> r.obj]]
        /\ tpc' = [tpc EXCEPT ![t] = "idle"]
        /\ treg' = [treg EXCEPT ![t] = NoReg]
        /\ UNCHANGED <<gil, base, last, dvars, fvars, cvars, tothers>>

\* ~ObjWrapper(): nothing for a null m_obj; ~ZimArticleWrapper() and
\* ~ObjWrapper() with an object go on to PyGILState_Ensure.
T_DtorBegin ==
    \E t \in Threads, h \in Handles :
        /\ tpc[t] = "idle"
        /\ handles[h].live /\ Untouched(h)
        /\ handles[h].kind \in {"ObjWrapper", "ZimArticleWrapper"}
        /\ IF handles[h].kind = "ObjWrapper" /\ handles[h].m_obj = NULL
           THEN /\ handles' = [handles EXCEPT ![h] = NoHandle]
                /\ UNCHANGED <<tpc, treg>>
           ELSE /\ tpc' = [tpc EXCEPT ![t] = "dtor_ensure"]
                /\ treg' = [treg EXCEPT ![t] = [NoReg EXCEPT !.h = h, !.kind = handles[h].kind,
                                                            !.obj = handles[h].m_obj]]
                /\ UNCHANGED handles
        /\ UNCHANGED <<gil, refcnt, base, incs, decs, last, dvars, fvars, cvars, tothers>>

\* gstate = PyGILState_Ensure(): waits for the lock unless the thread has it.
PyGILState_Ensure(t) ==
    /\ gil \in {FREE, t}
    /\ tpc' = [tpc EXCEPT ![t] = "dtor_read"]
    /\ treg' = [treg EXCEPT ![t].held = (gil = t)]
    /\ gil' = t

T_DtorEnsure ==
    \E t \in Threads :
        /\ tpc[t] = "dtor_ensure"
        /\ PyGILState_Ensure(t)
        /\ UNCHANGED <<hvars, dvars, fvars, cvars, tothers>>

\* Py_XDECREF(m_obj): the read of the count.
T_DtorRead ==
    \E t \in Threads :
        /\ tpc[t] = "dtor_read"
        /\ tpc' = [tpc EXCEPT ![t] = "dtor_write"]
        /\ treg' = [treg EXCEPT ![t].tmp = IF treg[t].obj = NULL THEN 0 ELSE refcnt[treg[t].obj]]
        /\ UNCHANGED <<gil, hvars, dvars, fvars, cvars, tothers>>

\* Py_XDECREF(m_obj): the write of the count.
T_DtorWrite ==
    \E t \in Threads :
        /\ tpc[t] = "dtor_write"
        /\ LET r == treg[t]
               rcNew == IF r.obj = NULL THEN refcnt ELSE [refcnt EXCEPT ![r.obj] = r.tmp - 1] IN
           /\ refcnt' = rcNew
           /\ Count(rcNew)
        /\ tpc' = [tpc EXCEPT ![t] = "dtor_release"]
        /\ UNCHANGED <<gil, treg, base, handles, last, dvars, fvars, cvars, tothers>>

\* PyGILState_Release(gstate): back to what Ensure found; the object is gone.
T_DtorRelease ==
    \E t \in Threads :
        /\ tpc[t] = "dtor_release"
        /\ gil' = IF treg[t].held THEN gil ELSE FREE
        /\ handles' = [handles EXCEPT ![treg[t].h] = NoHandle]
        /\ tpc' = [tpc EXCEPT ![t] = "idle"]
        /\ treg' = [treg EXCEPT ![t] = NoReg]
        /\ UNCHANGED <<refcnt, base, incs, decs, last, dvars, fvars, cvars, tothers>>

(***************************************************************************)
(* Reader side: Wrapper<Base> and the accessors written with FORWARD.      *)
(* The engine (zim::Archive, zim::Entry, zim::Item) is not part of this    *)
(* repository; it is modelled as an archive of MaxEntries entries, each an *)
(* item or a redirect to an earlier entry, with an optional main entry.    *)
(***************************************************************************)
EntryIds == 0..(MaxEntries - 1)
NoEntry == 0 - 1

\* Entry i redirects to redir[i], or is an item when redir[i] = NoEntry.
ArchiveShapes ==
    [main : EntryIds \cup {NoEntry},
     redir : {f \in [EntryIds -> EntryIds \cup {NoEntry}] :
                 \A i \in EntryIds : f[i] = NoEntry \/ f[i] < i}]

\* Engine values.  A moved-from value keeps its type and nothing else.
EngineValue(type, i) == [type |-> type, idx |-> i, moved |-> FALSE]
TheArchive == EngineValue("Archive", 0)
EngineValues ==
    {TheArchive} \cup {EngineValue(ty, i) : ty \in {"Entry", "Item"}, i \in EntryIds}
MovedFrom(x) == [type |-> x.type, idx |-> NoEntry, moved |-> TRUE]
NoInstance == [type |-> "null", idx |-> NoEntry, moved |-> FALSE]

\* Arguments: a path or a title (index MaxEntries names no entry), or none.
Arg(k, i) == [k |-> k, i |-> i]
NoArg == Arg("none", NoEntry)
Paths == {Arg("path", i) : i \in 0..MaxEntries}
Titles == {Arg("title", i) : i \in 0..MaxEntries}

\* The accessors the wrappers forward, by wrapped class.
Accessors(type) ==
    CASE type = "Archive" -> {"get_main_entry", "get_entry_by_path", "get_entry_by_title",
                              "has_main_entry", "has_entry_by_path", "get_entry_count"}
      [] type = "Entry" -> {"get_title", "get_path", "is_redirect", "get_item",
                            "get_redirect_entry", "get_index"}
      [] type = "Item" -> {"get_title", "get_path", "get_index"}
      [] OTHER -> {}

ArgsOf(name) ==
    CASE name \in {"get_entry_by_path", "has_entry_by_path"} -> Paths
      [] name = "get_entry_by_title" -> Titles
      [] OTHER -> {NoArg}

\* OUT of FORWARD(OUT, NAME): a wrapper class, or "plain" for a native type.
OutClass(name) ==
    CASE name \in {"get_main_entry", "get_entry_by_path", "get_entry_by_title",
                   "get_redirect_entry"} -> "Entry"
      [] name = "get_item" -> "Item"
      [] OTHER -> "plain"

NavigationNames == {"get_main_entry", "get_entry_by_path", "get_entry_by_title",
                    "get_item", "get_redirect_entry"}

Returned(v) == [ok |-> TRUE, err |-> "", val |-> v]
Thrown(e) == [ok |-> FALSE, err |-> e, val |-> <<>>]

\* What the engine answers to x.name(arg): a value, or an exception.
zim_call(x, name, arg) ==
    CASE x.moved -> Thrown("moved-from")
      [] name = "get_main_entry" ->
            IF arch.main = NoEntry THEN Thrown("EntryNotFound")
            ELSE Returned(EngineValue("Entry", arch.main))
      [] name \in {"get_entry_by_path", "get_entry_by_title"} ->
            IF arg.i \in EntryIds THEN Returned(EngineValue("Entry", arg.i))
            ELSE Thrown("EntryNotFound")
      [] name = "has_main_entry" -> Returned(<<arch.main # NoEntry>>)
      [] name = "has_entry_by_path" -> Returned(<<arg.i \in EntryIds>>)
      [] name = "get_entry_count" -> Returned(<<MaxEntries>>)
      [] name = "get_title" -> Returned(<<"title", x.idx>>)
      [] name = "get_path" -> Returned(<<"path", x.idx>>)
      [] name = "get_index" -> Returned(<<x.idx>>)
      [] name = "is_redirect" -> Returned(<<arch.redir[x.idx] # NoEntry>>)
      [] name = "get_item" ->
            IF arch.redir[x.idx] # NoEntry THEN Thrown("InvalidType")
            ELSE Returned(EngineValue("Item", x.idx))
      [] name = "get_redirect_entry" ->
            IF arch.redir[x.idx] = NoEntry THEN Thrown("InvalidType")
            ELSE Returned(EngineValue("Entry", arch.redir[x.idx]))
      [] OTHER -> Thrown("no such accessor")

\* Wrapper(): mp_base is null.
Wrapper_default(cls) == [cls |-> cls, mp_base |-> NoInstance]
\* Wrapper(const Base&) and Wrapper(Base&&): mp_base owns a new Base.
Wrapper_from(x) == [cls |-> x.type, mp_base |-> x]
NoWrapper == [cls |-> "none", mp_base |-> NoInstance]

Outcome(o, e, w, v) == [outcome |-> o, err |-> e, retw |-> w, retv |-> v]

\* mp_base->NAME(args) through a null mp_base is undefined: the process
\* dies, or the accessor runs on whatever memory is there and its result is
\* converted to OUT like any other.
NullForward(name) ==
    {Outcome("crash", "", NoWrapper, <<>>)} \cup
    IF OutClass(name) = "plain" THEN {Outcome("ok", "", NoWrapper, <<"garbage">>)}
    ELSE {Outcome("ok", "", Wrapper_from(EngineValue(OutClass(name), i)), <<>>) : i \in EntryIds}

FORWARD_DropsArgs(w, name, arg) ==
    LET r == zim_call(w.mp_base, name, CHOOSE a \in ArgsOf(name) : TRUE) IN
    IF w.mp_base = NoInstance THEN NullForward(name)
    ELSE IF ~r.ok THEN {Outcome("error", r.err, NoWrapper, <<>>)}
    ELSE IF OutClass(name) = "plain" THEN {Outcome("ok", "", NoWrapper, r.val)}
    ELSE {Outcome("ok", "", Wrapper_from(r.val), <<>>)}

FORWARD_EmptyOnFailure(w, name, arg) ==
    LET r == zim_call(w.mp_base, name, arg) IN
    IF w.mp_base = NoInstance THEN NullForward(name)
    ELSE IF ~r.ok THEN {Outcome("ok", "", Wrapper_default(OutClass(name)), <<>>)}
    ELSE IF OutClass(name) = "plain" THEN {Outcome("ok", "", NoWrapper, r.val)}
    ELSE {Outcome("ok", "", Wrapper_from(r.val), <<>>)}

\* OUT NAME(ARGS&&... args) const { return mp_base->NAME(args...); }
\* An exception of the engine passes through; a returned engine value is
\* converted to OUT, which for a wrapper class is Wrapper(const Base&).
FORWARD(w, name, arg) ==
    LET r == zim_call(w.mp_base, name, arg) IN
    IF w.mp_base = NoInstance THEN NullForward(name)
    ELSE IF ~r.ok THEN {Outcome("error", r.err, NoWrapper, <<>>)}
    ELSE IF OutClass(name) = "plain" THEN {Outcome("ok", "", NoWrapper, r.val)}
    ELSE {Outcome("ok", "", Wrapper_from(r.val), <<>>)}

NoReaderOp ==
    [op |-> "none", name |-> "", arg |-> NoArg, w |-> NoWrapper,
     outcome |-> "none", err |-> "", retw |-> NoWrapper, retv |-> <<>>]

ReaderIdle ==
    /\ arch = [main |-> NoEntry, redir |-> [i \in EntryIds |-> NoEntry]]
    /\ rw = NoWrapper /\ rx = NoInstance /\ rsrc = NoInstance
    /\ rlast = NoReaderOp

ReaderInit ==
    /\ arch \in ArchiveShapes
    /\ rw = NoWrapper /\ rx = NoInstance /\ rsrc = NoInstance
    /\ rlast = NoReaderOp

\* Entry e; Item i; Archive a;
DefaultConstruct ==
    \E cls \in {"Archive", "Entry", "Item"} :
        /\ rw' = Wrapper_default(cls)
        /\ rx' = NoInstance /\ rsrc' = NoInstance
        /\ rlast' = [NoReaderOp EXCEPT !.op = "default"]
        /\ UNCHANGED <<arch, hvars, dvars, fvars, cvars, rothers>>

\* Wrapper(const Base& base) : mp_base(new Base(base))
WrapCopy ==
    \E x \in EngineValues :
        /\ rw' = Wrapper_from(x)
        /\ rx' = x /\ rsrc' = x
        /\ rlast' = [NoReaderOp EXCEPT !.op = "wrap_copy"]
        /\ UNCHANGED <<arch, hvars, dvars, fvars, cvars, rothers>>

\* Wrapper(Base&& base) : mp_base(new Base(std::move(base))).  What is left
\* in base is up to Base's move constructor.
WrapMove ==
    \E x \in EngineValues :
        /\ rw' = Wrapper_from(x)
        /\ rx' \in {x, MovedFrom(x)} /\ rsrc' = x
        /\ rlast' = [NoReaderOp EXCEPT !.op = "wrap_move"]
        /\ UNCHANGED <<arch, hvars, dvars, fvars, cvars, rothers>>

\* The runtime calls a forwarded accessor on the wrapper it holds.
Forward ==
    /\ rw # NoWrapper
    /\ \E name \in Accessors(rw.cls) : \E arg \in ArgsOf(name) :
       \E r \in FORWARD(rw, name, arg) :
          rlast' = [op |-> "forward", name |-> name, arg |-> arg, w |-> rw,
                    outcome |-> r.outcome, err |-> r.err, retw |-> r.retw, retv |-> r.retv]
    /\ UNCHANGED <<arch, rw, rx, rsrc, hvars, dvars, fvars, cvars, rothers>>

(***************************************************************************)
(* Suggestions: wrapper::SuggestionResultSet and wrapper::SuggestionIterator.*)
(* The engine's iterator is a position in the result set: begin() is the   *)
(* first position, end() the one after the last, operator++ moves it one   *)
(* position on and returns it, operator!= compares positions.              *)
(***************************************************************************)
Suggestions == 1..MaxSuggestions

\* Result sets: up to MaxSuggestions different suggestions, in any order.
ResultSets ==
    {s \in SeqsUpTo(Suggestions, MaxSuggestions) :
        \A i, j \in 1..Len(s) : i # j => s[i] # s[j]}

zim_iterator(p) == EngineValue("SuggestionIterator", p)
zim_begin == zim_iterator(0)
zim_end == zim_iterator(Len(sset))
zim_ne(a, b) == a.idx # b.idx
zim_inc(a) == [a EXCEPT !.idx = @ + 1]
zim_deref(a) == sset[a.idx + 1]

\* FORWARD(wrapper::SuggestionIterator, begin) / (…, end)
SuggestionResultSet_begin == Wrapper_from(zim_begin)
SuggestionResultSet_end == Wrapper_from(zim_end)

\* bool operator!=(const wrapper::SuggestionIterator& it) const
\*   { return *mp_base != *it; }
SuggestionIterator_ne(w, it) == zim_ne(w.mp_base, it.mp_base)

SuggestionIterator_inc_Skips(w) ==
    [self |-> Wrapper_from(zim_inc(zim_inc(w.mp_base))),
     ret |-> Wrapper_from(zim_inc(zim_inc(w.mp_base)))]

\* FORWARD(wrapper::SuggestionIterator, operator++): the wrapped iterator is
\* advanced in place, and the reference it returns is copied into a wrapper.
SuggestionIterator_inc(w) ==
    [self |-> Wrapper_from(zim_inc(w.mp_base)),
     ret |-> Wrapper_from(zim_inc(w.mp_base))]

\* SuggestionItem get_suggestion_item() const { return mp_base->operator*(); }
SuggestionIterator_get_suggestion_item(w) == zim_deref(w.mp_base)

NoIterOp == [op |-> "none", a |-> NoWrapper, b |-> NoWrapper, ne |-> FALSE, ret |-> NoWrapper]

SuggestIdle ==
    /\ sset = <<>>
    /\ sit = NoWrapper /\ send = NoWrapper
    /\ svisited = <<>> /\ sadv = 0
    /\ spc = "idle" /\ slast = NoIterOp

SuggestInit ==
    /\ sset \in ResultSets
    /\ sit = NoWrapper /\ send = NoWrapper
    /\ svisited = <<>> /\ sadv = 0
    /\ spc = "start" /\ slast = NoIterOp

\* current = results.begin(); end = results.end()
S_Begin ==
    /\ spc = "start"
    /\ sit' = SuggestionResultSet_begin
    /\ send' = SuggestionResultSet_end
    /\ spc' = "test"
    /\ UNCHANGED <<sset, svisited, sadv, slast, hvars, dvars, fvars, cvars, sothers>>

\* while current != end
S_Test ==
    /\ spc = "test"
    /\ LET ne == SuggestionIterator_ne(sit, send) IN
       /\ slast' = [NoIterOp EXCEPT !.op = "ne", !.a = sit, !.b = send, !.ne = ne]
       /\ spc' = IF ne THEN "visit" ELSE "done"
    /\ UNCHANGED <<sset, sit, send, svisited, sadv, hvars, dvars, fvars, cvars, sothers>>

\* yield current.get_suggestion_item()
S_Visit ==
    /\ spc = "visit"
    /\ svisited' = Append(svisited, SuggestionIterator_get_suggestion_item(sit))
    /\ spc' = "inc"
    /\ UNCHANGED <<sset, sit, send, sadv, slast, hvars, dvars, fvars, cvars, sothers>>

\* ++current
S_Increment ==
    /\ spc = "inc"
    /\ LET r == SuggestionIterator_inc(sit) IN
       /\ sit' = r.self
       /\ slast' = [NoIterOp EXCEPT !.op = "inc", !.a = sit, !.b = r.self, !.ret = r.ret]
    /\ sadv' = sadv + 1
    /\ spc' = "test"
    /\ UNCHANGED <<sset, send, svisited, hvars, dvars, fvars, cvars, sothers>>

\* a != b for any two iterator wrappers over the result set.
S_Compare ==
    /\ spc # "idle"
    /\ \E p, q \in 0..Len(sset) :
         LET a == Wrapper_from(zim_iterator(p))
             b == Wrapper_from(zim_iterator(q)) IN
         slast' = [NoIterOp EXCEPT !.op = "ne", !.a = a, !.b = b,
                                   !.ne = SuggestionIterator_ne(a, b)]
    /\ UNCHANGED <<sset, sit, send, svisited, sadv, spc, hvars, dvars, fvars, cvars, sothers>>

(***************************************************************************)
(* The creator wrappers: ZimCreatorWrapper (libzim/lib.cxx) and ZimCreator *)
(* (pyzim/wrappers.cpp).  Each owns an OverriddenZimCreator through the    *)
(* raw pointer _creator; the engine creator itself is not part of this     *)
(* repository and is modelled by its state and the articles it was given.  *)
(***************************************************************************)
CreatorVariants == {"ZimCreatorWrapper", "ZimCreator"}
MainPages == {"home", "index"}
Languages == {"", "eng"}
Articles == {"a1", "a2"}

NoCreator == [state |-> "none", mainPage |-> "", indexing |-> FALSE, articles |-> <<>>]

CreatorIdle ==
    /\ kvariant = "none" /\ kw = "none" /\ kc = NoCreator
    /\ kdel = 0 /\ kuse = FALSE /\ kpc = "idle"

CreatorInit ==
    /\ kvariant = "none" /\ kw = "none" /\ kc = NoCreator
    /\ kdel = 0 /\ kuse = FALSE /\ kpc = "start"

\* ~ZimCreatorWrapper() / ~ZimCreator(): delete _creator
Creator_dtor(c) == [c EXCEPT !.state = "deleted"]

\* ZimCreatorWrapper::create / ZimCreator::create
K_Create ==
    \E v \in CreatorVariants, mainPage \in MainPages, fullTextIndexLanguage \in Languages :
        /\ kpc = "start"
        /\ kvariant' = v
        /\ kc' = [state |-> "started", mainPage |-> mainPage,
                  indexing |-> (fullTextIndexLanguage # ""), articles |-> <<>>]
        /\ kw' = "alive"
        /\ kpc' = "open"
        /\ UNCHANGED <<kdel, kuse, hvars, dvars, fvars, cvars, kothers>>

\* ZimCreatorWrapper::addArticle / ZimCreator::addArticle
K_AddArticle ==
    \E article \in Articles :
        /\ kpc = "open" /\ Len(kc.articles) < MaxArticles
        /\ kc' = [kc EXCEPT !.articles = Append(@, article)]
        /\ UNCHANGED <<kvariant, kw, kdel, kuse, kpc, hvars, dvars, fvars, cvars, kothers>>

\* ZimCreatorWrapper::setMainUrl (the pyzim class has none)
K_SetMainUrl ==
    \E newUrl \in MainPages :
        /\ kpc = "open" /\ kvariant = "ZimCreatorWrapper"
        /\ kc' = [kc EXCEPT !.mainPage = newUrl]
        /\ UNCHANGED <<kvariant, kw, kdel, kuse, kpc, hvars, dvars, fvars, cvars, kothers>>

\* ZimCreatorWrapper::finalize: _creator->finishZimCreation();
\* ZimCreator::finalise: _creator->finishZimCreation(); delete this;
\* When the engine throws, the statements after the call do not run.
K_Finalize ==
    \E finished \in BOOLEAN :
        /\ kpc = "open"
        /\ IF ~finished
           THEN /\ kpc' = "finalize_failed"
                /\ UNCHANGED <<kw, kc, kdel>>
           ELSE /\ kpc' = "finalized"
                /\ IF kvariant = "ZimCreator"
                   THEN /\ kw' = "deleted"
                        /\ kc' = Creator_dtor([kc EXCEPT !.state = "finished"])
                        /\ kdel' = kdel + 1
                   ELSE /\ kc' = [kc EXCEPT !.state = "finished"]
                        /\ UNCHANGED <<kw, kdel>>
        /\ UNCHANGED <<kvariant, kuse, hvars, dvars, fvars, cvars, kothers>>

\* The owner deletes the wrapper: the destructor runs delete _creator.  On a
\* wrapper that is already deleted this is undefined: the process may die
\* before the second delete, or run it.
K_Destroy ==
    /\ kpc \in {"open", "finalized", "finalize_failed"}
    /\ kpc' = "destroyed"
    /\ IF kw = "alive"
       THEN /\ kw' = "deleted"
            /\ kc' = Creator_dtor(kc)
            /\ kdel' = kdel + 1
            /\ UNCHANGED kuse
       ELSE /\ kuse' = TRUE
            /\ kdel' \in {kdel, kdel + 1}
            /\ UNCHANGED <<kw, kc>>
    /\ UNCHANGED <<kvariant, hvars, dvars, fvars, cvars, kothers>>

(***************************************************************************)
(* ZimArticleWrapper::getUrl and getRedirectUrl: the string the Python     *)
(* method returns is cut into a namespace character and a path.  Strings   *)
(* are sequences of characters.                                            *)
(***************************************************************************)
Chars == {"A", "/", "x"}
UrlStrings == SeqsUpTo(Chars, MaxUrlLen)
UrlOps == {"getUrl", "getRedirectUrl"}
UrlMethods == {"get_url", "get_redirect_url"}

\* The character operator[] gives at index size(): the terminating null.
NUL == "NUL"

NoUrl == [ns |-> "", path |-> <<>>]

substr_Clamps(s, pos, n) ==
    IF pos > Len(s) THEN [ok |-> TRUE, val |-> <<>>]
    ELSE [ok |-> TRUE,
          val |-> SubSeq(s, pos + 1, IF pos + n < Len(s) THEN pos + n ELSE Len(s))]

\* std::string::substr(pos, n): throws std::out_of_range when pos > size(),
\* else the characters from pos, at most n of them.
substr(s, pos, n) ==
    IF pos > Len(s) THEN [ok |-> FALSE, val |-> <<>>]
    ELSE [ok |-> TRUE,
          val |-> SubSeq(s, pos + 1, IF pos + n < Len(s) THEN pos + n ELSE Len(s))]

\* std::string::operator[](0)
FirstChar(s) == IF Len(s) = 0 THEN NUL ELSE s[1]

UrlResult(err, msg, url, invoked) == [err |-> err, msg |-> msg, url |-> url, invoked |-> invoked]

\* std::string url = callCythonReturnString(methodName);
\* return zim::writer::Url(url.substr(0, 1)[0], url.substr(2, url.length()));
ZimArticleWrapper_getUrl(obj, methodName, py) ==
    LET c == callCythonReturn("string", obj, methodName, py) IN
    IF c.err # "none" THEN UrlResult(c.err, c.msg, NoUrl, c.invoked)
    ELSE LET url == c.out.val
             head == substr(url, 0, 1)
             tail == substr(url, 2, Len(url)) IN
         IF head.ok /\ tail.ok
         THEN UrlResult("none", "", [ns |-> FirstChar(head.val), path |-> tail.val], c.invoked)
         ELSE UrlResult("out_of_range", "basic_string::substr", NoUrl, c.invoked)

UrlMethod(op) == IF op = "getUrl" THEN "get_url" ELSE "get_redirect_url"

\* What the Python method does: it raises, or it returns a string.
UrlOutcomes ==
    [raised : {TRUE}, msg : Messages, ret : {NoValue}]
        \cup [raised : {FALSE}, msg : {""}, ret : [type : {"string"}, val : UrlStrings]]

NoUrlCall == [op |-> "none", obj |-> NULL, raised |-> FALSE, ret |-> <<>>,
              err |-> "none", msg |-> "", url |-> NoUrl, invoked |-> <<>>]

UrlIdle == ucall = NoUrlCall

GetUrl ==
    \E op \in UrlOps, obj \in Ptrs, a \in UrlOutcomes :
        LET r == ZimArticleWrapper_getUrl(obj, UrlMethod(op), [mth \in UrlMethods |-> a]) IN
        /\ ucall' = [op |-> op, obj |-> obj, raised |-> a.raised, ret |-> a.ret.val,
                     err |-> r.err, msg |-> r.msg, url |-> r.url, invoked |-> r.invoked]
        /\ UNCHANGED <<hvars, dvars, fvars, cvars, uothers>>

OtherIdle == ThreadsIdle /\ ReaderIdle /\ SuggestIdle /\ CreatorIdle /\ UrlIdle

(***************************************************************************)
(* The specifications.                                                     *)
(***************************************************************************)
Init == HandleInit /\ call = NoCall /\ FeedInit /\ CompInit /\ OtherIdle

\* Handles constructed and destroyed, nothing else.
NextRoundTrip ==
    \/ Construct(ObjWrapperKinds)
    \/ ConstructArticle
    \/ Destroy
    \/ DestroyArticle

InitRoundTrip == HandleInit /\ call = NoCall /\ FeedIdle /\ CompIdle /\ OtherIdle

SpecRoundTrip == InitRoundTrip /\ [][NextRoundTrip]_vars

\* Every operation of the handles.
NextHandle ==
    \/ Construct({"ObjWrapper"})
    \/ ConstructArticle
    \/ MoveConstruct
    \/ MoveAssign
    \/ Destroy
    \/ DestroyArticle

InitHandle == HandleInit /\ call = NoCall /\ FeedIdle /\ CompIdle /\ OtherIdle

SpecHandle == InitHandle /\ [][NextHandle]_vars

\* The engine calling the adapters it holds.
NextDispatch ==
    \/ WriterItemCall
    \/ GetIndexData
    \/ IndexDataCall
    \/ ContentProviderGetSize
    \/ ContentProviderFeed
    \/ ArticleCall

InitDispatch == DispatchInit /\ call = NoCall /\ FeedIdle /\ CompIdle /\ OtherIdle

SpecDispatch == InitDispatch /\ [][NextDispatch]_vars

\* The engine writing the content of one item from a provider adapter.
FeedHandlesInit ==
    /\ base \in [Objs -> 1..MaxBase]
    /\ \E h0 \in Handles :
          handles = [h \in Handles |->
                        IF h = h0
                        THEN [live |-> TRUE, kind |-> "ContentProviderWrapper",
                              m_obj |-> ProviderObj]
                        ELSE NoHandle]
    /\ refcnt = [o \in Objs |-> base[o] + Cardinality(LiveOn(o))]
    /\ incs = [o \in Objs |-> Cardinality(LiveOn(o))]
    /\ decs = [o \in Objs |-> 0]
    /\ last = NoOp

NextFeed == EngineGetSize \/ EngineFeed

InitFeed == FeedHandlesInit /\ call = NoCall /\ FeedInit /\ CompIdle /\ OtherIdle

SpecFeed == InitFeed /\ [][NextFeed]_vars

\* comp_from_int applied to one code after the other.
NextComp == CompCall \/ CompNext

InitComp == HandleInit /\ call = NoCall /\ FeedIdle /\ CompInit /\ OtherIdle

SpecComp == InitComp /\ [][NextComp]_vars

\* Handles constructed and destroyed by several threads.
NextThreads ==
    \/ CallerTakesGIL
    \/ CallerDropsGIL
    \/ T_CtorBegin
    \/ T_CtorRead
    \/ T_CtorWrite
    \/ T_DtorBegin
    \/ T_DtorEnsure
    \/ T_DtorRead
    \/ T_DtorWrite
    \/ T_DtorRelease

InitThreads == HandleInit /\ call = NoCall /\ FeedIdle /\ CompIdle /\ ThreadsIdle /\ ReaderIdle /\ SuggestIdle /\ CreatorIdle /\ UrlIdle

SpecThreads == InitThreads /\ [][NextThreads]_vars

\* Value wrappers built and read by the runtime.
NextReader ==
    \/ DefaultConstruct
    \/ WrapCopy
    \/ WrapMove
    \/ Forward

InitReader == HandleInit /\ call = NoCall /\ FeedIdle /\ CompIdle /\ ThreadsIdle /\ ReaderInit /\ SuggestIdle /\ CreatorIdle /\ UrlIdle

SpecReader == InitReader /\ [][NextReader]_vars

\* The runtime's loop over a suggestion result set.
SuggestLoop == S_Begin \/ S_Test \/ S_Visit \/ S_Increment

NextSuggest ==
    \/ S_Begin
    \/ S_Test
    \/ S_Visit
    \/ S_Increment
    \/ S_Compare

InitSuggest ==
    HandleInit /\ call = NoCall /\ FeedIdle /\ CompIdle /\ ThreadsIdle /\ ReaderIdle /\ SuggestInit /\ CreatorIdle /\ UrlIdle

\* The loop is not abandoned: the runtime keeps stepping it.
SpecSuggest == InitSuggest /\ [][NextSuggest]_vars /\ WF_vars(SuggestLoop)

\* An owner creating an archive through either creator wrapper.
NextCreator ==
    \/ K_Create
    \/ K_AddArticle
    \/ K_SetMainUrl
    \/ K_Finalize
    \/ K_Destroy

InitCreator ==
    HandleInit /\ call = NoCall /\ FeedIdle /\ CompIdle /\ ThreadsIdle /\ ReaderIdle /\ SuggestIdle /\ CreatorInit /\ UrlIdle

SpecCreator == InitCreator /\ [][NextCreator]_vars

\* The engine asking an article for its url or its redirect url.
NextUrl == GetUrl

InitUrl ==
    HandleInit /\ call = NoCall /\ FeedIdle /\ CompIdle /\ ThreadsIdle /\ ReaderIdle /\ SuggestIdle /\ CreatorIdle /\ UrlIdle

SpecUrl == InitUrl /\ [][NextUrl]_vars

Next ==
    \/ Construct(ObjWrapperKinds)
    \/ ConstructArticle
    \/ MoveConstruct
    \/ MoveAssign
    \/ Destroy
    \/ DestroyArticle
    \/ NextDispatch
    \/ NextFeed
    \/ NextComp
    \/ NextThreads
    \/ NextReader
    \/ NextSuggest
    \/ NextCreator
    \/ NextUrl

Spec == Init /\ [][Next]_vars


(***************************************************************************)
(* The properties.                                                         *)
(***************************************************************************)
NoLiveHandle == \A h \in Handles : ~handles[h].live

\* C1: whenever every handle constructed around an object has been destroyed
\* again (after any number of constructions and destructions, of ObjWrapper
\* and of ZimArticleWrapper), the object's reference count is what it was
\* before the first construction.
C1_RoundTrip ==
    \A o \in Objs : LiveOn(o) = {} => (refcnt[o] = base[o] /\ incs[o] = decs[o])

\* N = MaxIncs handles have been constructed around an object and destroyed.
C1_Witness ==
    \E o \in Objs : NoLiveHandle /\ incs[o] = MaxIncs /\ decs[o] = MaxIncs
                    /\ last.op = "dtor"

\* C2: a move construction hands the pointer to the new handle and leaves
\* null in the source, the destruction of a handle holding null changes no
\* count, and no object is ever decremented more often than handles
\* incremented it.
C2_MoveNeverDoubleReleases ==
    /\ \A o \in Objs : decs[o] <= incs[o]
    /\ last.op = "move" =>
          /\ handles[last.h].live /\ handles[last.h].m_obj = last.obj
          /\ handles[last.src].live /\ handles[last.src].m_obj = NULL
          /\ refcnt = last.rcBefore
    /\ (last.op = "dtor" /\ last.obj = NULL) => refcnt = last.rcBefore

\* A moved-from handle has been destroyed after the handle it was moved to.
C2_Witness ==
    /\ last.op = "dtor" /\ last.obj = NULL
    /\ NoLiveHandle
    /\ \E o \in Objs : incs[o] = 1 /\ decs[o] = 1

\* C3: each object's count is its count before any handle existed plus the
\* number of live handles pointing to it.
C3_CountIsBasePlusLiveHandles ==
    \A o \in Objs : refcnt[o] = base[o] + Cardinality(LiveOn(o))

\* C4: a construction that finds the module linkage missing (the import
\* reports failure) ends in RuntimeNotReady, leaves every count as it was
\* and leaves no handle behind that would decrement later.
C4_FailedImportLeavesCount ==
    (last.op = "ctor" /\ last.err # "none") =>
        /\ last.err = "RuntimeNotReady"
        /\ refcnt = last.rcBefore
        /\ ~handles[last.h].live

\* A construction around an object failed while a handle holds that object.
C4_Witness ==
    /\ last.op = "ctor" /\ last.err = "RuntimeNotReady" /\ last.obj \in Objs
    /\ LiveOn(last.obj) # {}


DispatchedOps == WriterItemOps \cup IndexDataOps \cup ArticleOps \cup {"getSize", "feed"}

\* C5: a dispatcher call on a null handle fails with UnboundObject ("Python
\* object not set"), whatever the return type and the method name, and no
\* method of any Python object has been invoked by it.
C5_NullHandleIsUnbound ==
    (call.op \in DispatchedOps /\ call.obj = NULL) =>
        /\ call.err = "UnboundObject"
        /\ call.msg = "Python object not set"
        /\ call.invoked = <<>>
        /\ call.out = NoValue

\* An adapter around a null pointer has been asked for a blob.
C5_Witness ==
    call.op = "feed" /\ call.kind = "ContentProviderWrapper" /\ call.obj = NULL

C7_IndexDataDefault ==
    (call.op = "getIndexData" /\ call.obj # NULL) =>
        IF call.attr \in {"absent", "none"}
        THEN /\ call.err = "none"
             /\ call.out = EngineDefaultIndexData
             /\ call.invoked = <<>>
        ELSE call.invoked = <<"get_indexdata">>

\* getIndexData met a get_indexdata attribute that is None.
C7_Witness ==
    /\ call.op = "getIndexData" /\ call.obj # NULL /\ call.attr = "none"
    /\ call.out = EngineDefaultIndexData

\* C8: the engine receives the object's chunks one per feed() call and in
\* the object's order, each feed() making exactly one invocation of feed on
\* the object; it never fails, it stops at the empty chunk, and it has then
\* received every chunk and as many bytes as getSize() announced.
C8_FeedInOrder ==
    /\ pc # "failed"
    /\ feedPos = feedCalls
    /\ Len(received) <= Len(feedSrc)
    /\ \A i \in 1..Len(received) : received[i] = feedSrc[i]
    /\ pc = "feeding" => Len(received) = feedCalls
    /\ pc = "done" =>
          /\ received = feedSrc
          /\ feedCalls = Len(feedSrc) + 1
          /\ TotalLen(received) = sizeSeen
          /\ sizeSeen = TotalLen(feedSrc)

\* The engine finished an item of two chunks, the first of two bytes.
C8_Witness ==
    /\ pc = "done"
    /\ Len(received) = 2 /\ received[1] = <<"a", "b">>
    /\ received[1] # received[2]

\* C9 as stated: 0 gives None, 1 gives Lzma or Zstd, 2 gives Zstd.
C9_DocumentedTable ==
    compOut \in CompressionKinds =>
        /\ compIn = 0 => compOut = "None"
        /\ compIn = 1 => compOut \in {"Lzma", "Zstd"}
        /\ compIn = 2 => compOut = "Zstd"

\* C9: comp_from_int maps 0 to None, 1 to Zstd and 2 to None.
C9_Table ==
    compOut \notin {"idle", "pending"} =>
        /\ compIn = 0 => compOut = "None"
        /\ compIn = 1 => compOut = "Zstd"
        /\ compIn = 2 => compOut = "None"

\* comp_from_int has answered for the code 2.
C9_Witness == compIn = 2 /\ compOut = "None"

\* C10: comp_from_int answers every code with a compression kind, with None
\* for every code other than 0, 1 and 2, and never with two different kinds
\* for one code.
C10_TotalWithFallback ==
    /\ compOut \notin {"idle", "pending"} =>
          /\ compOut \in CompressionKinds
          /\ compIn \notin {0, 1, 2} => compOut = "None"
    /\ \A v \in CompInputs :
          /\ compSeen[v] \subseteq CompressionKinds
          /\ Cardinality(compSeen[v]) <= 1

\* comp_from_int has answered for a negative code and for every other code.
C10_Witness ==
    /\ compIn < 0 /\ compOut = "None"
    /\ \A v \in CompInputs : compSeen[v] # {}

InCount(t) == tpc[t] \in {"ctor_read", "ctor_write", "dtor_read", "dtor_write"}

\* C11: a thread that reads or writes an object's count in a constructor or
\* a destructor holds the global lock, and no increment or decrement is
\* lost: with every thread at rest, each count is its base count plus the
\* live handles on the object.
C11_CountChangesUnderLock ==
    /\ \A t \in Threads : InCount(t) => gil = t
    /\ (\A t \in Threads : tpc[t] = "idle") =>
          \A o \in Objs : refcnt[o] = base[o] + Cardinality(LiveOn(o))

\* The last operation was a forwarded accessor called on a wrapper that holds
\* the wrapped value.
ForwardedOnWrapped == rlast.op = "forward" /\ rlast.w.mp_base # NoInstance

\* What the forwarded accessor must give, from the engine's answer on the
\* value as it was when it was wrapped.
SameAsDirect ==
    LET r == zim_call(rsrc, rlast.name, rlast.arg) IN
    IF ~r.ok THEN rlast.outcome = "error" /\ rlast.err = r.err
    ELSE /\ rlast.outcome = "ok"
         /\ IF OutClass(rlast.name) = "plain"
            THEN rlast.retv = r.val /\ rlast.retw = NoWrapper
            ELSE rlast.retw = [cls |-> OutClass(rlast.name), mp_base |-> r.val]

\* C12 (as stated): an accessor called on Wrapper(x) returns what the same
\* accessor returns on x (re-wrapped for a wrapper result type), a
\* default-constructed wrapper holds no instance, and wrapping, by copy or
\* by move, leaves x unchanged.
C12_ForwardExact ==
    /\ ForwardedOnWrapped => SameAsDirect
    /\ rlast.op = "default" => rw.mp_base = NoInstance
    /\ rlast.op \in {"wrap_copy", "wrap_move"} => rx = rsrc

\* C12 (amended): as above, but only wrapping by copy leaves x unchanged;
\* after wrapping by move x is either unchanged or moved-from.
C12_ForwardExactCopyKeepsSource ==
    /\ ForwardedOnWrapped => SameAsDirect
    /\ rlast.op = "default" => rw.mp_base = NoInstance
    /\ rlast.op = "wrap_copy" => rx = rsrc
    /\ rlast.op = "wrap_move" => rx \in {rsrc, MovedFrom(rsrc)}

\* The archive was wrapped by move, which left the source moved-from; the
\* wrapper was asked for the entry at path 1 and gave it back in a wrapper.
C12_Witness ==
    /\ ForwardedOnWrapped
    /\ rx = MovedFrom(rsrc)
    /\ rlast.name = "get_entry_by_path" /\ rlast.arg = Arg("path", 1)
    /\ rlast.outcome = "ok" /\ rlast.retw = Wrapper_from(EngineValue("Entry", 1))

\* What the loop has read is what the result set holds up to the position
\* reached, and the loop ends at the position after the last suggestion.
VisitsInOrder ==
    /\ sadv <= Len(sset)
    /\ svisited = SubSeq(sset, 1, IF spc = "inc" THEN sadv + 1 ELSE sadv)
    /\ spc = "done" => sadv = Len(sset) /\ svisited = sset

\* C13: from begin(), applying operator++ while the iterator != end() visits
\* the suggestions 0..n-1 once each in the engine's order and ends after
\* exactly n advancements; a != b holds exactly when the wrapped iterators
\* are unequal, and operator++ advances the wrapped iterator by one position.
C13_IterationExact ==
    /\ [](/\ VisitsInOrder
          /\ slast.op = "ne" => (slast.ne <=> slast.a.mp_base # slast.b.mp_base)
          /\ slast.op = "inc" =>
                /\ slast.b.mp_base.idx = slast.a.mp_base.idx + 1
                /\ slast.ret = slast.b)
    /\ <>(spc = "done")

\* The loop over a full result set is over: every suggestion was visited.
C13_Witness ==
    /\ spc = "done" /\ Len(sset) = MaxSuggestions
    /\ sadv = MaxSuggestions /\ svisited = sset

\* The last operation was a navigation call, and the engine failed in it.
FailedNavigation ==
    /\ ForwardedOnWrapped /\ rlast.name \in NavigationNames
    /\ ~zim_call(rlast.w.mp_base, rlast.name, rlast.arg).ok

\* C14: a navigation call that fails in the engine ends in an error and
\* returns no wrapper, and every wrapper a navigation call returns holds an
\* instance.
C14_FailedNavigationIsError ==
    /\ FailedNavigation => rlast.outcome = "error" /\ rlast.retw = NoWrapper
    /\ (rlast.op = "forward" /\ rlast.name \in NavigationNames /\ rlast.outcome = "ok")
          => rlast.retw # NoWrapper /\ rlast.retw.mp_base # NoInstance

\* An archive without a main entry was asked for it and the call failed.
C14_Witness ==
    /\ FailedNavigation /\ rlast.name = "get_main_entry"
    /\ arch.main = NoEntry
    /\ rlast.outcome = "error" /\ rlast.err = "EntryNotFound"

\* The method name and the marshaled type documented for each operation of
\* WriterItemWrapper.
ForwardedName(op) ==
    CASE op = "getPath" -> "get_path"
      [] op = "getTitle" -> "get_title"
      [] op = "getMimeType" -> "get_mimetype"
      [] op = "getContentProvider" -> "get_contentprovider"
      [] op = "getHints" -> "get_hints"
      [] op = "getIndexData" -> "get_indexdata"

ForwardedType(op) ==
    CASE op \in {"getPath", "getTitle", "getMimeType"} -> "string"
      [] op = "getContentProvider" -> "contentprovider"
      [] op = "getHints" -> "hints"
      [] op = "getIndexData" -> "indexdata"

\* The last call was an operation of a WriterItemWrapper bound to an object
\* (for getIndexData: whose get_indexdata is present and not None).
WriterItemForwarded ==
    /\ call.kind = "WriterItemWrapper" /\ call.obj # NULL
    /\ call.op \in WriterItemOps \cup {"getIndexData"}
    /\ call.op = "getIndexData" => call.attr = "method"

\* C15: each operation of WriterItemWrapper makes exactly one invocation, of
\* its fixed method name, and returns that invocation's marshaled result
\* unchanged (an error if the invocation raised or gave another shape).
C15_PureForwardFixedName ==
    WriterItemForwarded =>
        /\ call.invoked = <<ForwardedName(call.op)>>
        /\ IF ~call.pyraised /\ call.pyret.type = ForwardedType(call.op)
           THEN call.err = "none" /\ call.out = call.pyret
           ELSE call.err = "DynamicCallError" /\ call.out = NoValue

\* getTitle on a bound adapter invoked get_title once and returned its string.
C15_Witness ==
    /\ WriterItemForwarded /\ call.op = "getTitle"
    /\ call.invoked = <<"get_title">>
    /\ call.err = "none" /\ call.out = call.pyret /\ call.out.type = "string"

\* C16: a virtual operation of a writer-side adapter, whether it succeeds or
\* fails, leaves every handle's object pointer, every object's count and the
\* bridge's increments and decrements as they were.
C16_OperationsKeepHandle ==
    [][call'.kind \in AdapterKinds =>
          /\ handles' = handles
          /\ refcnt' = refcnt
          /\ incs' = incs /\ decs' = decs]_vars

\* A failed operation on an adapter bound to an object: the adapter still
\* holds the object, and the object's count still includes the handle.
C16_Witness ==
    /\ call.kind \in AdapterKinds /\ call.obj # NULL
    /\ call.err = "DynamicCallError"
    /\ handles[call.h].live /\ handles[call.h].m_obj = call.obj
    /\ refcnt[call.obj] = base[call.obj] + Cardinality(LiveOn(call.obj))

\* C17: with either creator wrapper, over create, addArticle*, finalize and
\* the owner's destruction of the wrapper, the engine creator is deleted
\* exactly once, at the wrapper's destruction; finalize leaves the wrapper
\* and its creator alive, and nothing deleted is used or deleted again.
C17_CreatorDeletedOnce ==
    /\ kdel <= 1 /\ ~kuse
    /\ kpc = "finalized" => kw = "alive" /\ kc.state = "finished"
    /\ kpc = "destroyed" <=> kdel = 1

\* The last call was getUrl or getRedirectUrl on a bound article whose Python
\* method returned a string.
UrlReturned == ucall.op \in UrlOps /\ ucall.obj # NULL /\ ~ucall.raised

\* C18: the namespace is the first character of the returned string and the
\* path is everything from index 2 on, the character at index 1 being
\* dropped; a string of at least 2 characters gives that Url, and a shorter
\* one gives no Url: the call fails.
C18_UrlSplit ==
    UrlReturned =>
        IF Len(ucall.ret) >= 2
        THEN /\ ucall.err = "none"
             /\ ucall.url.ns = ucall.ret[1]
             /\ ucall.url.path = [i \in 1..(Len(ucall.ret) - 2) |-> ucall.ret[i + 2]]
        ELSE ucall.err # "none" /\ ucall.url = NoUrl

\* get_redirect_url returned "Ax/": namespace "A", path "/", the "x" at index
\* 1 dropped.
C18_Witness ==
    /\ UrlReturned /\ ucall.op = "getRedirectUrl"
    /\ ucall.ret = <<"A", "x", "/">>
    /\ ucall.err = "none" /\ ucall.url = [ns |-> "A", path |-> <<"/">>]

====
